---- MODULE Spec2Model ----
(***************************************************************************)
(* A model of the hash-linked ledger of src/main.py: MerkleTree, Block,    *)
(* from_dict and Blockchain.                                               *)
(*                                                                         *)
(* Text is a sequence of tokens and + on text is \o, so that every string  *)
(* the code hashes is built here the way the code builds it.  A SHA-256    *)
(* hex digest is one token that carries the text it was computed from      *)
(* (the digest function is collision-free) and the value of its leading    *)
(* four hex characters, a function of that text.                           *)
(*                                                                         *)
(* Python lists are objects: heap maps a list's identity to its content,   *)
(* and a block and the ledger hold identities, so that sharing of a list   *)
(* between the pending buffer and a block is part of the model.            *)
(***************************************************************************)
EXTENDS Integers, Sequences, FiniteSets, TLC

\* ------------------------------------------------------------------ bounds
MaxTx == 3          \* transactions handed to add_transaction in one run
MaxChain == 3       \* blocks in the chain before add_block is no longer called
HashSpace == 4      \* number of values of a digest's leading characters (16^4 in the code)

Persons == {"Alice", "Bob"}
Amounts == {1}
Queried == Persons \cup {"Mike"}
\* the transfers handed to add_transaction: every one Alice takes part in, her
\* transfer to herself included (Bob to Bob is its mirror image)
Transfers ==
    {t \in [sender : Persons, receiver : Persons, amount : Amounts] :
        t.sender = "Alice" \/ t.receiver = "Alice"}
\* datetime.now(): a date-and-seconds part and a microsecond part
Times == {[sec |-> 0, usec |-> 0], [sec |-> 0, usec |-> 1]}
\* the longest search the model follows: Mix has period 2 in the nonce, so a
\* search that has not ended by then never ends
MaxNonce == HashSpace

VARIABLES
    chain,                 \* Blockchain.chain: sequence of Block objects
    current_transactions,  \* Blockchain.current_transactions: identity of a list
    heap,                  \* list identity -> content (sequence of transactions)
    file,                  \* blockchain.json: the stored document, or NoFile
    ret,                   \* the last completed call and what it returned
    pc,                    \* "ready", or "searching": inside proof_of_work for ever
    tamper                 \* what was changed from outside after the chain was built

vars == <<chain, current_transactions, heap, file, ret, pc, tamper>>

\* ------------------------------------------------------------------ text
Ch(c) == [ch |-> c]
Name(n) == [name |-> n]
Num(n) == [int |-> n]

\* str(datetime): 'YYYY-MM-DD HH:MM:SS' and, when microsecond # 0, '.ffffff'
StrTime(t) ==
    IF t.usec = 0 THEN <<[date |-> t.sec]>>
    ELSE <<[date |-> t.sec], [frac |-> t.usec]>>

\* datetime.fromisoformat on such a text
FromIsoFormat(s) ==
    IF Len(s) = 1 THEN [sec |-> s[1].date, usec |-> 0]
    ELSE [sec |-> s[1].date, usec |-> s[2].frac]

\* str of a transaction dict {'sender': .., 'receiver': .., 'amount': ..}
StrTx(tx) == <<Ch("{"), Name(tx.sender), Name(tx.receiver), Num(tx.amount), Ch("}")>>

RECURSIVE JoinTx(_)
JoinTx(txs) ==
    IF Len(txs) = 0 THEN <<>>
    ELSE IF Len(txs) = 1 THEN StrTx(txs[1])
    ELSE StrTx(txs[1]) \o <<Ch(", ")>> \o JoinTx(Tail(txs))

\* str of a list of transaction dicts
StrTxList(txs) == <<Ch("[")>> \o JoinTx(txs) \o <<Ch("]")>>

\* ------------------------------------------------------------------ sha256
\* The digest's leading characters are a fixed function of the hashed text:
\* here the sum of a weight per token, modulo HashSpace.
Code(tok) ==
    IF "name" \in DOMAIN tok THEN (IF tok.name = "Alice" THEN 1 ELSE 2)
    ELSE IF "int" \in DOMAIN tok THEN 2 * (tok.int % 2)
    ELSE IF "date" \in DOMAIN tok THEN tok.date
    ELSE IF "frac" \in DOMAIN tok THEN tok.frac
    ELSE IF "sha" \in DOMAIN tok THEN tok.lead + 1
    ELSE 0

RECURSIVE SumCodes(_)
SumCodes(s) == IF Len(s) = 0 THEN 0 ELSE Code(s[1]) + SumCodes(Tail(s))

\* the leading four hex characters of the digest of text s, as a number
Mix(s) == SumCodes(s) % HashSpace

\* hashlib.sha256(s.encode()).hexdigest()
Sha256Hex(s) == <<[sha |-> s, lead |-> Mix(s)]>>

\* h[:4] == "0000"
LeadingZeros(h) == Len(h) >= 1 /\ "sha" \in DOMAIN h[1] /\ h[1].lead = 0

\* ------------------------------------------------------------------ MerkleTree
hash_pair(left, right) == Sha256Hex(left \o right)

\* one pass of create_merkle_root's loop and odd-tail rule
new_level(transactions) ==
    LET n == Len(transactions)
        pairs == [i \in 1..(n \div 2) |->
                     hash_pair(transactions[2 * i - 1], transactions[2 * i])]
    IN IF n % 2 = 1
       THEN Append(pairs, hash_pair(transactions[n], transactions[n]))
       ELSE pairs

RECURSIVE create_merkle_root(_)
create_merkle_root(transactions) ==
    IF Len(transactions) = 0 THEN <<>>
    ELSE IF Len(transactions) = 1 THEN Sha256Hex(transactions[1])
    ELSE create_merkle_root(new_level(transactions))

\* MerkleTree(transactions, merkle_root).merkle_root
MerkleTree(transactions, merkle_root) ==
    IF merkle_root = <<>> THEN create_merkle_root(transactions) ELSE merkle_root

\* [str(tx) for tx in transactions]
StrEach(txs) == [i \in 1..Len(txs) |-> StrTx(txs[i])]

\* ------------------------------------------------------------------ Block
\* generate_hash with line 43 ending at str(self.nonce): the Merkle root is not
\* part of what is hashed
generate_hash_no_root(block, h) ==
    Sha256Hex(StrTime(block.timestamp) \o StrTxList(h[block.transactions])
              \o block.previous_hash \o <<Num(block.nonce)>>)

\* Block.generate_hash, reading the block's list through heap h
generate_hash(block, h) ==
    Sha256Hex(StrTime(block.timestamp) \o StrTxList(h[block.transactions])
              \o block.previous_hash \o <<Num(block.nonce)>> \o block.merkle_root)

\* Block.__init__ with line 36 storing the genesis sentinel whatever it is given
Block_unlinked(transactions, previous_hash, now, h) ==
    LET b0 == [timestamp |-> now,
               transactions |-> transactions,
               previous_hash |-> <<Ch("0")>>,
               merkle_root |-> MerkleTree(StrEach(h[transactions]), <<>>),
               nonce |-> 0,
               hash |-> <<>>]
    IN [b0 EXCEPT !.hash = generate_hash(b0, h)]

\* Block.__init__ at time now, with transactions the identity of a list
Block(transactions, previous_hash, now, h) ==
    LET b0 == [timestamp |-> now,
               transactions |-> transactions,
               previous_hash |-> previous_hash,
               merkle_root |-> MerkleTree(StrEach(h[transactions]), <<>>),
               nonce |-> 0,
               hash |-> <<>>]
    IN [b0 EXCEPT !.hash = generate_hash(b0, h)]

\* Block.verify_transactions
verify_transactions(block, h) ==
    MerkleTree(StrEach(h[block.transactions]), <<>>) = block.merkle_root

\* Block.to_dict, as the document json.dump writes
to_dict(block, h) ==
    [timestamp |-> StrTime(block.timestamp),
     transactions |-> h[block.transactions],
     previous_hash |-> block.previous_hash,
     nonce |-> block.nonce,
     hash |-> block.hash,
     merkle_root |-> block.merkle_root]

\* from_dict without line 65: the nonce stays the 0 the constructor set
from_dict_keeps_nonce(data, transactions) ==
    [timestamp |-> FromIsoFormat(data.timestamp),
     transactions |-> transactions,
     previous_hash |-> data.previous_hash,
     merkle_root |-> MerkleTree(<<>>, data.merkle_root),
     nonce |-> 0,
     hash |-> data.hash]

\* from_dict: the Block built at line 63 has its timestamp, nonce, hash and
\* merkle_tree overwritten at lines 64-67; transactions is the identity of the
\* list json.load made for data['transactions']
from_dict(data, transactions) ==
    [timestamp |-> FromIsoFormat(data.timestamp),
     transactions |-> transactions,
     previous_hash |-> data.previous_hash,
     merkle_root |-> MerkleTree(<<>>, data.merkle_root),
     nonce |-> data.nonce,
     hash |-> data.hash]

\* a text datetime.fromisoformat accepts
IsIsoFormat(s) ==
    /\ Len(s) \in {1, 2}
    /\ "date" \in DOMAIN s[1]
    /\ Len(s) = 2 => "frac" \in DOMAIN s[2]

\* the exception from_dict ends with, "" when it returns a Block: the six
\* subscripts of lines 63-67 raise KeyError on a missing key and fromisoformat
\* raises ValueError; the records of data['transactions'] are only passed to
\* str and no other value is looked into
BlockKeys == {"timestamp", "transactions", "previous_hash", "nonce", "hash", "merkle_root"}
from_dict_raises(data) ==
    IF BlockKeys \ DOMAIN data # {} THEN "KeyError"
    ELSE IF ~IsIsoFormat(data.timestamp) THEN "ValueError"
    ELSE ""

\* ------------------------------------------------------------------ Blockchain
NoFile == <<[absent |-> TRUE]>>
None == <<>>
NoRet == [op |-> "", arg |-> "", val |-> None]
NoTamper == [field |-> "", k |-> 0, old |-> <<>>]
Returned(op, arg, val) == [op |-> op, arg |-> arg, val |-> val]
\* no call returns any more: proof_of_work was entered with this block and its
\* loop does not end
Searching(block) == [op |-> "searching", arg |-> "", val |-> block]
\* a call that ended with an exception
Raised(op, exception) == [op |-> op, arg |-> "raised", val |-> exception]

\* every transaction of every block, in chain order
RECURSIVE ChainTx(_, _)
ChainTx(c, h) ==
    IF Len(c) = 0 THEN <<>> ELSE h[c[1].transactions] \o ChainTx(Tail(c), h)

\* the content of the pending buffer, and of a block's list
Pending == heap[current_transactions]
TxOf(block) == heap[block.transactions]

TxCount == Len(Pending) + Len(ChainTx(chain, heap))

\* proof_of_work with lines 90 and 91 in the other order: the hash is
\* recomputed before the nonce moves
RECURSIVE proof_of_work_stale(_, _)
proof_of_work_stale(block, h) ==
    IF LeadingZeros(block.hash) THEN [returns |-> TRUE, block |-> block]
    ELSE IF block.nonce >= MaxNonce THEN [returns |-> FALSE, block |-> block]
    ELSE proof_of_work_stale([block EXCEPT !.hash = generate_hash(block, h),
                                           !.nonce = block.nonce + 1], h)

\* proof_of_work with line 90 as block.nonce += 2
RECURSIVE proof_of_work_skips(_, _)
proof_of_work_skips(block, h) ==
    IF LeadingZeros(block.hash) THEN [returns |-> TRUE, block |-> block]
    ELSE IF block.nonce >= MaxNonce THEN [returns |-> FALSE, block |-> block]
    ELSE LET b1 == [block EXCEPT !.nonce = block.nonce + 2]
         IN proof_of_work_skips([b1 EXCEPT !.hash = generate_hash(b1, h)], h)

\* proof_of_work as a loop that tests the hash after the body instead of
\* before it: the nonce moves at least once
RECURSIVE proof_of_work_until(_, _)
proof_of_work_until(block, h) ==
    IF block.nonce >= MaxNonce THEN [returns |-> FALSE, block |-> block]
    ELSE LET b1 == [block EXCEPT !.nonce = block.nonce + 1]
             b2 == [b1 EXCEPT !.hash = generate_hash(b1, h)]
         IN IF LeadingZeros(b2.hash) THEN [returns |-> TRUE, block |-> b2]
            ELSE proof_of_work_until(b2, h)

\* Blockchain.proof_of_work: the block when the loop ends, or returns = FALSE
\* when the loop never ends
RECURSIVE proof_of_work(_, _)
proof_of_work(block, h) ==
    IF LeadingZeros(block.hash) THEN [returns |-> TRUE, block |-> block]
    ELSE IF block.nonce >= MaxNonce THEN [returns |-> FALSE, block |-> block]
    ELSE LET b1 == [block EXCEPT !.nonce = block.nonce + 1]
         IN proof_of_work([b1 EXCEPT !.hash = generate_hash(b1, h)], h)

\* Blockchain.__init__ with create_genesis_block; the genesis block's list is
\* given identity 1 and the pending buffer's list identity 2
Init ==
    \E now \in Times :
        /\ heap = <<<<>>, <<>>>>
        /\ current_transactions = 2
        /\ chain = <<Block(1, <<Ch("0")>>, now, heap)>>
        /\ file = NoFile
        /\ ret = NoRet
        /\ pc = "ready"
        /\ tamper = NoTamper

Callable == pc = "ready" /\ tamper = NoTamper

add_transaction ==
    /\ Callable
    /\ TxCount < MaxTx
    /\ \E t \in Transfers :
          LET new_transaction ==
                  [sender |-> t.sender, receiver |-> t.receiver, amount |-> t.amount]
          IN heap' = [heap EXCEPT ![current_transactions] = Append(@, new_transaction)]
    /\ ret' = Returned("add_transaction", "", None)
    /\ UNCHANGED <<chain, current_transactions, file, pc, tamper>>

\* add_block with line 86 moved before line 83: the block is built on the new,
\* empty list
add_block_clears_first ==
    /\ Callable
    /\ Len(chain) < MaxChain
    /\ \E now \in Times :
          LET previous_block == chain[Len(chain)]
              heap1 == Append(heap, <<>>)
              new_block == Block(Len(heap) + 1, previous_block.hash, now, heap1)
              search == proof_of_work(new_block, heap1)
          IN IF search.returns
             THEN /\ chain' = Append(chain, search.block)
                  /\ heap' = heap1
                  /\ current_transactions' = Len(heap) + 1
                  /\ ret' = Returned("add_block", "", None)
                  /\ UNCHANGED <<file, pc, tamper>>
             ELSE /\ pc' = "searching"
                  /\ ret' = Searching(new_block)
                  /\ UNCHANGED <<chain, current_transactions, heap, file, tamper>>

\* add_block with line 86 as self.current_transactions.clear(): the list the
\* new block holds is emptied and stays the pending buffer
add_block_clears_in_place ==
    /\ Callable
    /\ Len(chain) < MaxChain
    /\ \E now \in Times :
          LET previous_block == chain[Len(chain)]
              new_block == Block(current_transactions, previous_block.hash, now, heap)
              search == proof_of_work(new_block, heap)
          IN IF search.returns
             THEN /\ chain' = Append(chain, search.block)
                  /\ heap' = [heap EXCEPT ![current_transactions] = <<>>]
                  /\ ret' = Returned("add_block", "", None)
                  /\ UNCHANGED <<current_transactions, file, pc, tamper>>
             ELSE /\ pc' = "searching"
                  /\ ret' = Searching(new_block)
                  /\ UNCHANGED <<chain, current_transactions, heap, file, tamper>>

add_block ==
    /\ Callable
    /\ Len(chain) < MaxChain
    /\ \E now \in Times :
          LET previous_block == chain[Len(chain)]
              new_block == Block(current_transactions, previous_block.hash, now, heap)
              search == proof_of_work(new_block, heap)
          IN IF search.returns
             THEN /\ chain' = Append(chain, search.block)
                  /\ heap' = Append(heap, <<>>)
                  /\ current_transactions' = Len(heap) + 1
                  /\ ret' = Returned("add_block", "", None)
                  /\ UNCHANGED <<file, pc, tamper>>
             ELSE /\ pc' = "searching"
                  /\ ret' = Searching(new_block)
                  /\ UNCHANGED <<chain, current_transactions, heap, file, tamper>>

\* get_balance with line 108 as elif: a record whose sender is the person is
\* never counted as received
\* proof_of_work called on a block of the chain.  While the loop runs without
\* end the block's nonce and hash keep moving; the chain is left showing the
\* block as it was at entry.
call_proof_of_work ==
    /\ Callable
    /\ \E k \in 1..Len(chain) :
          LET search == proof_of_work(chain[k], heap)
          IN IF search.returns
             THEN /\ chain' = [chain EXCEPT ![k] = search.block]
                  /\ ret' = Returned("proof_of_work", k, search.block.hash)
                  /\ UNCHANGED <<current_transactions, heap, file, pc, tamper>>
             ELSE /\ pc' = "searching"
                  /\ ret' = Searching(chain[k])
                  /\ UNCHANGED <<chain, current_transactions, heap, file, tamper>>

RECURSIVE balance_fold_elif(_, _, _)
balance_fold_elif(txs, person, balance) ==
    IF Len(txs) = 0 THEN balance
    ELSE LET t == txs[1]
             b2 == IF t.sender = person THEN balance - t.amount
                   ELSE IF t.receiver = person THEN balance + t.amount
                   ELSE balance
         IN balance_fold_elif(Tail(txs), person, b2)

RECURSIVE balance_fold(_, _, _)
balance_fold(txs, person, balance) ==
    IF Len(txs) = 0 THEN balance
    ELSE LET t == txs[1]
             b1 == IF t.sender = person THEN balance - t.amount ELSE balance
             b2 == IF t.receiver = person THEN b1 + t.amount ELSE b1
         IN balance_fold(Tail(txs), person, b2)

get_balance(c, h, person) == balance_fold(ChainTx(c, h), person, 0)

\* float('-inf') and the integers, with Python's min and max on them
NegInf == [neg_inf |-> TRUE, n |-> 0]
Finite(n) == [neg_inf |-> FALSE, n |-> n]
PyMin(a, b) == IF b < a THEN b ELSE a
PyMax(a, b) == IF a.neg_inf \/ b > a.n THEN Finite(b) ELSE a

RECURSIVE min_max_fold(_, _, _, _, _)
min_max_fold(txs, person, min_balance, max_balance, balance) ==
    IF Len(txs) = 0 THEN <<min_balance, max_balance>>
    ELSE LET t == txs[1]
             b1 == IF t.sender = person THEN balance - t.amount ELSE balance
             b2 == IF t.receiver = person THEN b1 + t.amount ELSE b1
         IN min_max_fold(Tail(txs), person, PyMin(min_balance, b2),
                         PyMax(max_balance, b2), b2)

get_min_max_balance(c, h, person) ==
    min_max_fold(ChainTx(c, h), person, 0, NegInf, 0)

\* verify_chain without lines 134-135
verify_chain_no_link(c, h) ==
    \A i \in 2..Len(c) : c[i].hash = generate_hash(c[i], h)

verify_chain(c, h) ==
    \A i \in 2..Len(c) :
        /\ c[i].hash = generate_hash(c[i], h)
        /\ c[i].previous_hash = c[i - 1].hash

verify_all_transactions(c, h) ==
    \A i \in 1..Len(c) : verify_transactions(c[i], h)

\* balance[user] = balance.get(user, 0) + delta on a dict kept in insertion order
DictAdd(balance, user, delta) ==
    IF \E i \in 1..Len(balance) : balance[i].user = user
    THEN [i \in 1..Len(balance) |->
             IF balance[i].user = user
             THEN [balance[i] EXCEPT !.bal = @ + delta]
             ELSE balance[i]]
    ELSE Append(balance, [user |-> user, bal |-> delta])

RECURSIVE positive_fold(_, _)
positive_fold(txs, balance) ==
    IF Len(txs) = 0 THEN balance
    ELSE LET t == txs[1]
         IN positive_fold(Tail(txs),
                DictAdd(DictAdd(balance, t.sender, 0 - t.amount), t.receiver, t.amount))

\* the comprehension of line 154 with bal >= 0
RECURSIVE PositiveOf_nonneg(_)
PositiveOf_nonneg(balance) ==
    IF Len(balance) = 0 THEN <<>>
    ELSE IF balance[1].bal >= 0
         THEN <<balance[1].user>> \o PositiveOf_nonneg(Tail(balance))
         ELSE PositiveOf_nonneg(Tail(balance))

RECURSIVE PositiveOf(_)
PositiveOf(balance) ==
    IF Len(balance) = 0 THEN <<>>
    ELSE IF balance[1].bal > 0
         THEN <<balance[1].user>> \o PositiveOf(Tail(balance))
         ELSE PositiveOf(Tail(balance))

get_positive_balance_users(c, h) == PositiveOf(positive_fold(ChainTx(c, h), <<>>))

\* the calls that only read: each leaves its result in ret
Query(op, arg, val) ==
    /\ pc = "ready"
    /\ ret' = Returned(op, arg, val)
    /\ UNCHANGED <<chain, current_transactions, heap, file, pc, tamper>>

call_get_balance ==
    \E person \in Queried : Query("get_balance", person, get_balance(chain, heap, person))

call_get_min_max_balance ==
    \E person \in Queried :
        Query("get_min_max_balance", person, get_min_max_balance(chain, heap, person))

call_get_positive_balance_users ==
    Query("get_positive_balance_users", "", get_positive_balance_users(chain, heap))

call_verify_chain == Query("verify_chain", "", verify_chain(chain, heap))

call_verify_all_transactions ==
    Query("verify_all_transactions", "", verify_all_transactions(chain, heap))

\* save_to_file that writes self.chain[1:], the genesis block left out
save_to_file_skips_genesis ==
    /\ Callable
    /\ file' = [i \in 1..(Len(chain) - 1) |-> to_dict(chain[i + 1], heap)]
    /\ ret' = Returned("save_to_file", "", None)
    /\ UNCHANGED <<chain, current_transactions, heap, pc, tamper>>

save_to_file ==
    /\ Callable
    /\ file' = [i \in 1..Len(chain) |-> to_dict(chain[i], heap)]
    /\ ret' = Returned("save_to_file", "", None)
    /\ UNCHANGED <<chain, current_transactions, heap, pc, tamper>>

\* load_from_file that also starts the pending buffer afresh, as __init__ does
load_from_file_resets ==
    /\ Callable
    /\ file # NoFile
    /\ chain' = [i \in 1..Len(file) |-> from_dict(file[i], i)]
    /\ heap' = [i \in 1..Len(file) |-> file[i].transactions] \o <<<<>>>>
    /\ current_transactions' = Len(file) + 1
    /\ ret' = Returned("load_from_file", "", None)
    /\ UNCHANGED <<file, pc, tamper>>

\* load_from_file: every block is rebuilt around a list json.load made.  The
\* lists of the replaced chain are no longer referenced; they are dropped and
\* their identities used again, block i holding list i and the pending buffer
\* keeping its list under the next identity.
load_from_file ==
    /\ Callable
    /\ file # NoFile
    /\ LET bad == {i \in 1..Len(file) : from_dict_raises(file[i]) # ""}
       IN IF bad = {}
          THEN /\ chain' = [i \in 1..Len(file) |-> from_dict(file[i], i)]
               /\ heap' = [i \in 1..Len(file) |-> file[i].transactions] \o <<Pending>>
               /\ current_transactions' = Len(file) + 1
               /\ ret' = Returned("load_from_file", "", None)
               /\ UNCHANGED <<file, pc, tamper>>
          ELSE \* the comprehension of line 164 raises before self.chain is assigned
               /\ ret' = Raised("load_from_file",
                                from_dict_raises(file[CHOOSE i \in bad : \A j \in bad : i <= j]))
               /\ UNCHANGED <<chain, current_transactions, heap, file, pc, tamper>>

Queries ==
    \/ call_get_balance
    \/ call_get_min_max_balance
    \/ call_get_positive_balance_users
    \/ call_verify_chain
    \/ call_verify_all_transactions

\* a ledger driven by add_transaction and add_block alone, and verified
NextBuild ==
    \/ add_transaction
    \/ add_block
    \/ call_verify_chain
    \/ call_verify_all_transactions
SpecBuild == Init /\ [][NextBuild]_vars

\* a ledger driven by add_transaction and add_block alone, and asked for balances
NextBalances ==
    \/ add_transaction
    \/ add_block
    \/ call_get_balance
    \/ call_get_min_max_balance
    \/ call_get_positive_balance_users
SpecBalances == Init /\ [][NextBalances]_vars

\* the whole interface of Blockchain
Next == add_transaction \/ add_block \/ Queries \/ save_to_file \/ load_from_file
Spec == Init /\ [][Next]_vars

\* a ledger whose blocks are also handed to proof_of_work directly
NextSeal ==
    \/ add_transaction
    \/ add_block
    \/ call_proof_of_work
SpecSeal == Init /\ [][NextSeal]_vars

\* ------------------------------------------------------------------ tampering
\* A built chain changed from outside, one stored value of one block, with
\* everything else left as it was; after it only the verifications are called.
\* a hex digest with one character other than its leading four changed
Flip(h) ==
    IF Len(h) >= 1 /\ "sha" \in DOMAIN h[1]
    THEN <<[sha |-> h[1].sha \o <<Ch("~")>>, lead |-> h[1].lead]>>
    ELSE h \o <<Ch("~")>>

\* values a stored hash may be changed to: the sentinel, the digest with a
\* character changed, the hash some block of the chain stores
TamperValues(c, old) ==
    ({<<Ch("0")>>, Flip(old)} \cup {c[j].hash : j \in 1..Len(c)}) \ {old}

RemoveAt(s, i) == [j \in 1..(Len(s) - 1) |-> IF j < i THEN s[j] ELSE s[j + 1]]
SwapAt(s, i) ==
    [j \in 1..Len(s) |-> IF j = i THEN s[i + 1] ELSE IF j = i + 1 THEN s[i] ELSE s[j]]

\* a transaction list with a record changed, removed, moved or added
Mutations(txs) ==
    ({[txs EXCEPT ![i] = t] : i \in 1..Len(txs), t \in Transfers}
     \cup {RemoveAt(txs, i) : i \in 1..Len(txs)}
     \cup {SwapAt(txs, i) : i \in 1..(Len(txs) - 1)}
     \cup {Append(txs, t) : t \in Transfers}
     \cup {<<t>> \o txs : t \in Transfers}) \ {txs}

tamper_hash ==
    /\ Callable
    /\ \E k \in 1..Len(chain) : \E v \in TamperValues(chain, chain[k].hash) :
          /\ chain' = [chain EXCEPT ![k].hash = v]
          /\ tamper' = [field |-> "hash", k |-> k, old |-> chain[k].hash]
    /\ ret' = NoRet
    /\ UNCHANGED <<current_transactions, heap, file, pc>>

tamper_previous_hash ==
    /\ Callable
    /\ \E k \in 1..Len(chain) : \E v \in TamperValues(chain, chain[k].previous_hash) :
          /\ chain' = [chain EXCEPT ![k].previous_hash = v]
          /\ tamper' = [field |-> "previous_hash", k |-> k, old |-> chain[k].previous_hash]
    /\ ret' = NoRet
    /\ UNCHANGED <<current_transactions, heap, file, pc>>

tamper_transactions ==
    /\ Callable
    /\ \E k \in 1..Len(chain) : \E txs \in Mutations(heap[chain[k].transactions]) :
          /\ heap' = [heap EXCEPT ![chain[k].transactions] = txs]
          /\ tamper' = [field |-> "transactions", k |-> k,
                        old |-> heap[chain[k].transactions]]
    /\ ret' = NoRet
    /\ UNCHANGED <<chain, current_transactions, file, pc>>

\* a built chain with one stored hash or previous_hash changed, then verified
NextTamper ==
    \/ add_transaction
    \/ add_block
    \/ tamper_hash
    \/ tamper_previous_hash
    \/ call_verify_chain
SpecTamper == Init /\ [][NextTamper]_vars

\* a built chain with one block's transaction list mutated, then verified
NextTamperTx ==
    \/ add_transaction
    \/ add_block
    \/ tamper_transactions
    \/ call_verify_all_transactions
SpecTamperTx == Init /\ [][NextTamperTx]_vars

\* the other values a block's hash is computed from: nonce, timestamp and
\* stored Merkle root
tamper_nonce ==
    /\ Callable
    /\ \E k \in 1..Len(chain) : \E v \in (0..MaxNonce) \ {chain[k].nonce} :
          /\ chain' = [chain EXCEPT ![k].nonce = v]
          /\ tamper' = [field |-> "nonce", k |-> k, old |-> chain[k].nonce]
    /\ ret' = NoRet
    /\ UNCHANGED <<current_transactions, heap, file, pc>>

tamper_timestamp ==
    /\ Callable
    /\ \E k \in 1..Len(chain) : \E v \in Times \ {chain[k].timestamp} :
          /\ chain' = [chain EXCEPT ![k].timestamp = v]
          /\ tamper' = [field |-> "timestamp", k |-> k, old |-> chain[k].timestamp]
    /\ ret' = NoRet
    /\ UNCHANGED <<current_transactions, heap, file, pc>>

\* values a stored Merkle root may be changed to: the empty root, the root with
\* a character changed, the root some block of the chain stores
RootValues(c, old) ==
    ({<<>>, Flip(old)} \cup {c[j].merkle_root : j \in 1..Len(c)}) \ {old}

tamper_merkle_root ==
    /\ Callable
    /\ \E k \in 1..Len(chain) : \E v \in RootValues(chain, chain[k].merkle_root) :
          /\ chain' = [chain EXCEPT ![k].merkle_root = v]
          /\ tamper' = [field |-> "merkle_root", k |-> k, old |-> chain[k].merkle_root]
    /\ ret' = NoRet
    /\ UNCHANGED <<current_transactions, heap, file, pc>>

\* a built chain with one hash input of one block changed, then verified
NextTamperInputs ==
    \/ add_transaction
    \/ add_block
    \/ tamper_transactions
    \/ tamper_nonce
    \/ tamper_timestamp
    \/ tamper_merkle_root
    \/ call_verify_chain
SpecTamperInputs == Init /\ [][NextTamperInputs]_vars

\* ------------------------------------------------------------------ stored file
TxKeys == {"sender", "receiver", "amount"}
Without(record, key) == [f \in DOMAIN record \ {key} |-> record[f]]
\* a text that is no ISO date
NotADate == <<Ch("yesterday")>>

WellFormedBlock(data) ==
    /\ BlockKeys \subseteq DOMAIN data
    /\ IsIsoFormat(data.timestamp)
    /\ \A j \in 1..Len(data.transactions) : TxKeys \subseteq DOMAIN data.transactions[j]

\* the documents that differ from a well-formed one in one place: a block
\* record without one key or with a timestamp that is no date, or a
\* transaction record without one key
Malformations(doc) ==
    {[doc EXCEPT ![i] = Without(@, key)] : i \in 1..Len(doc), key \in BlockKeys}
    \cup {[doc EXCEPT ![i].timestamp = NotADate] : i \in 1..Len(doc)}
    \cup UNION {{[doc EXCEPT ![i].transactions[j] = Without(@, key)] :
                    j \in 1..Len(doc[i].transactions), key \in TxKeys} :
                i \in 1..Len(doc)}

\* blockchain.json edited between save_to_file and load_from_file
edit_file ==
    /\ Callable
    /\ file # NoFile
    /\ \A i \in 1..Len(file) : WellFormedBlock(file[i])
    /\ file' \in Malformations(file)
    /\ ret' = NoRet
    /\ UNCHANGED <<chain, current_transactions, heap, pc, tamper>>

\* a ledger that loads what may have been edited after it was saved
NextStored ==
    \/ add_transaction
    \/ add_block
    \/ save_to_file
    \/ edit_file
    \/ load_from_file
SpecStored == Init /\ [][NextStored]_vars

\* ------------------------------------------------------------------ properties
IsPrefixOf(s, t) == Len(s) <= Len(t) /\ \A i \in 1..Len(s) : s[i] = t[i]

\* C1: in every state reached by add_transaction and add_block, every block
\* after the genesis block stores as previous_hash the hash its predecessor
\* stores in that state.
C1_Linked ==
    \A i \in 2..Len(chain) : chain[i].previous_hash = chain[i - 1].hash

\* a three-block chain whose middle block was given its hash by a search that
\* moved the nonce
C1_Witness == Len(chain) = 3 /\ chain[2].nonce > 0

\* C2: on a chain built by add_transaction and add_block and not modified
\* afterwards, verify_chain returns True.
C2_BuiltChainVerifies == ret.op = "verify_chain" => ret.val = TRUE

C2_Witness ==
    /\ ret.op = "verify_chain"
    /\ Len(chain) = 3
    /\ chain[3].nonce > 0
    /\ Len(TxOf(chain[2])) > 0

\* C3 as stated: after one block's stored hash or stored previous_hash is
\* changed to a different value, the genesis block included, verify_chain
\* returns False.
C3_AnyBlockDetected ==
    (ret.op = "verify_chain" /\ tamper.field \in {"hash", "previous_hash"})
        => ret.val = FALSE

\* C3 amended: the change is detected exactly when the block is not the genesis
\* block, or when it is the genesis block's hash and a second block links to it;
\* a changed genesis previous_hash, and a changed hash of a genesis block that
\* stands alone, leave verify_chain returning True.
C3_NonGenesisDetected ==
    (ret.op = "verify_chain" /\ tamper.field \in {"hash", "previous_hash"})
        => (ret.val = FALSE
               <=> (tamper.k >= 2 \/ (tamper.field = "hash" /\ Len(chain) >= 2)))

C3_Witness ==
    /\ ret.op = "verify_chain"
    /\ tamper.field = "hash"
    /\ tamper.k = 1
    /\ Len(chain) = 3
    /\ ret.val = FALSE

\* C4: after a block's transaction list is mutated with its stored Merkle root
\* left as it was, verify_all_transactions returns False.
C4_MutationDetected ==
    (ret.op = "verify_all_transactions" /\ tamper.field = "transactions")
        => ret.val = FALSE

\* what escapes within the bounds is only the list lengthened or shortened by
\* a copy of its last record, the shorter list having an odd length of 3 or more
TailCopy(short, long) ==
    /\ Len(short) >= 3
    /\ Len(short) % 2 = 1
    /\ long = Append(short, short[Len(short)])

C4_OnlyTailCopyEscapes ==
    (ret.op = "verify_all_transactions" /\ tamper.field = "transactions"
         /\ ret.val = TRUE)
        => \/ TailCopy(tamper.old, TxOf(chain[tamper.k]))
           \/ TailCopy(TxOf(chain[tamper.k]), tamper.old)

\* C5: every block of the chain, the genesis block included, stores a hash that
\* satisfies the difficulty predicate.
C5_EveryBlockSealed == \A i \in 1..Len(chain) : LeadingZeros(chain[i].hash)

\* C6: a completed add_block lengthens the chain by exactly one block, whose
\* transaction list is the pending buffer of the moment of the call, record for
\* record and in order.
C6_AppendsPending ==
    [][ret'.op = "add_block" =>
          /\ Len(chain') = Len(chain) + 1
          /\ heap'[chain'[Len(chain')].transactions] = Pending]_vars

C6_Witness ==
    /\ ret.op = "add_block"
    /\ Len(chain) = 3
    /\ Len(TxOf(chain[3])) = 2
    /\ TxOf(chain[3])[1] # TxOf(chain[3])[2]

\* C7: the pending buffer is empty right after every completed add_block, and
\* every other call keeps all the records the buffer holds, in their order.
C7_ClearedOnlyByAddBlock ==
    [][/\ ret'.op = "add_block" => Pending' = <<>>
       /\ ret'.op # "add_block" => IsPrefixOf(Pending, Pending')]_vars

C7_Witness ==
    /\ ret.op = "load_from_file"
    /\ Len(Pending) >= 2
    /\ Len(chain) >= 2

\* C8: under add_transaction and add_block the chain only grows, and every
\* block already in it keeps every field and every transaction.
C8_AppendOnly ==
    [][/\ Len(chain') >= Len(chain)
       /\ \A i \in 1..Len(chain) :
             /\ chain'[i] = chain[i]
             /\ heap'[chain'[i].transactions] = heap[chain[i].transactions]]_vars

C8_Witness ==
    /\ ret.op = "add_transaction"
    /\ Len(chain) >= 2
    /\ Len(TxOf(chain[2])) >= 1
    /\ Len(Pending) >= 1

\* C9: for two or more inputs the commitment is the one digest left by repeated
\* pairwise reduction, not hashed again: H(a+b) for [a, b] and
\* H(H(a+b) + H(c+c)) for [a, b, c].
RECURSIVE LastDigest(_)
LastDigest(level) ==
    IF Len(level) = 1 THEN level[1] ELSE LastDigest(new_level(level))

C9_RootIsLastDigest ==
    \A i \in 1..Len(chain) :
        LET leaves == StrEach(TxOf(chain[i]))
        IN /\ Len(leaves) >= 2 => chain[i].merkle_root = LastDigest(leaves)
           /\ Len(leaves) = 2 =>
                 chain[i].merkle_root = hash_pair(leaves[1], leaves[2])
           /\ Len(leaves) = 3 =>
                 chain[i].merkle_root =
                     hash_pair(hash_pair(leaves[1], leaves[2]),
                               hash_pair(leaves[3], leaves[3]))

\* C10: get_min_max_balance returns the least and the greatest of the
\* cumulative balances 0, b1, b2, ... (0 first, then the balance after each
\* transaction in chain order), so min <= 0 <= max, and (0, 0) with no
\* transactions.
RECURSIVE Cumulative(_, _, _)
Cumulative(txs, person, balance) ==
    IF Len(txs) = 0 THEN {balance}
    ELSE {balance} \cup
         Cumulative(Tail(txs), person, balance_fold(<<txs[1]>>, person, balance))

Least(S) == CHOOSE x \in S : \A y \in S : x <= y
Greatest(S) == CHOOSE x \in S : \A y \in S : x >= y

C10_MinMaxFromZero ==
    ret.op = "get_min_max_balance" =>
        LET seen == Cumulative(ChainTx(chain, heap), ret.arg, 0)
        IN /\ ret.val[1] = Least(seen)
           /\ ret.val[2] = Finite(Greatest(seen))
           /\ ret.val[1] <= 0
           /\ ~ret.val[2].neg_inf /\ ret.val[2].n >= 0

\* the amounts of the records of txs at the positions in idx, added up
RECURSIVE SumAt(_, _)
SumAt(txs, idx) ==
    IF idx = {} THEN 0
    ELSE LET i == CHOOSE j \in idx : TRUE
         IN txs[i].amount + SumAt(txs, idx \ {i})

Received(txs, person) ==
    SumAt(txs, {i \in 1..Len(txs) : txs[i].receiver = person})
Sent(txs, person) ==
    SumAt(txs, {i \in 1..Len(txs) : txs[i].sender = person})

\* C11: get_balance(person) is what the person received minus what the person
\* sent over the transactions inside blocks, 0 for a person in none of them;
\* add_transaction changes no balance, and a completed add_block changes each
\* balance by exactly the net of the records that were pending.
C11_BalanceOverBlocks ==
    [][/\ ret'.op = "get_balance" =>
             LET txs == ChainTx(chain', heap')
             IN /\ ret'.val = Received(txs, ret'.arg) - Sent(txs, ret'.arg)
                /\ (\A i \in 1..Len(txs) :
                        txs[i].sender # ret'.arg /\ txs[i].receiver # ret'.arg)
                       => ret'.val = 0
       /\ ret'.op = "add_transaction" =>
             \A p \in Queried :
                 get_balance(chain', heap', p) = get_balance(chain, heap, p)
       /\ ret'.op = "add_block" =>
             \A p \in Queried :
                 get_balance(chain', heap', p) =
                     get_balance(chain, heap, p)
                         + Received(Pending, p) - Sent(Pending, p)]_vars

\* a balance asked for while one transfer sits in a block and another, which
\* would change the answer, is still pending
C11_Witness ==
    /\ ret.op = "get_balance"
    /\ ret.arg = "Alice"
    /\ ret.val # 0
    /\ Len(chain) >= 2
    /\ Received(Pending, "Alice") - Sent(Pending, "Alice") # 0

\* C12: get_positive_balance_users lists a person exactly when get_balance of
\* that person is above 0, and lists nobody twice, a transfer from a person to
\* themselves included.
C12_PositiveIffBalance ==
    ret.op = "get_positive_balance_users" =>
        /\ \A p \in Queried :
               (\E i \in 1..Len(ret.val) : ret.val[i] = p)
                   <=> get_balance(chain, heap, p) > 0
        /\ \A i \in 1..Len(ret.val) : ret.val[i] \in Queried
        /\ \A i, j \in 1..Len(ret.val) : ret.val[i] = ret.val[j] => i = j

\* the list asked for on a chain holding a transfer of Alice to herself and a
\* transfer that leaves somebody above 0
C12_Witness ==
    /\ ret.op = "get_positive_balance_users"
    /\ Len(ret.val) = 1
    /\ \E i \in 1..Len(ChainTx(chain, heap)) :
           ChainTx(chain, heap)[i].sender = ChainTx(chain, heap)[i].receiver

\* C13: what save_to_file writes, load_from_file reads back as a chain of the
\* same length whose blocks have the saved timestamp, transactions,
\* previous_hash, nonce, hash and Merkle root, and verify_chain and
\* verify_all_transactions are True on the loaded ledger.
C13_RoundTrip ==
    /\ ret = Returned("save_to_file", "", None) =>
          /\ Len(file) = Len(chain)
          /\ \A i \in 1..Len(chain) :
                /\ from_dict(file[i], chain[i].transactions) = chain[i]
                /\ file[i].transactions = TxOf(chain[i])
    /\ ret = Returned("load_from_file", "", None) =>
          /\ Len(chain) = Len(file)
          /\ \A i \in 1..Len(chain) :
                /\ StrTime(chain[i].timestamp) = file[i].timestamp
                /\ TxOf(chain[i]) = file[i].transactions
                /\ chain[i].previous_hash = file[i].previous_hash
                /\ chain[i].nonce = file[i].nonce
                /\ chain[i].hash = file[i].hash
                /\ chain[i].merkle_root = file[i].merkle_root
          /\ verify_chain(chain, heap)
          /\ verify_all_transactions(chain, heap)

\* a three-block chain read back whose last block has a moved nonce, a
\* timestamp with microseconds and two transactions
C13_Witness ==
    /\ ret = Returned("load_from_file", "", None)
    /\ Len(chain) = 3
    /\ chain[3].nonce > 0
    /\ chain[3].timestamp.usec # 0
    /\ Len(TxOf(chain[3])) = 2

\* a document the specification calls malformed
Malformed(doc) == \E i \in 1..Len(doc) : ~WellFormedBlock(doc[i])

\* C14: load_from_file on a stored document with a block record lacking one of
\* its six keys or holding an unparseable value, or a transaction record
\* lacking sender, receiver or amount, ends with an error and leaves the chain
\* as it was.
C14_MalformedLoadFails ==
    [][(ret'.op = "load_from_file" /\ Malformed(file)) =>
          /\ ret'.arg = "raised"
          /\ chain' = chain
          /\ \A i \in 1..Len(chain) : TxOf(chain[i])' = TxOf(chain[i])]_vars

\* what the code does: a malformed block record stops the load with the chain
\* untouched
C14_BlockRecordRejected ==
    [][(ret'.op = "load_from_file" /\ \E i \in 1..Len(file) : from_dict_raises(file[i]) # "") =>
          /\ ret'.arg = "raised"
          /\ ret'.val \in {"KeyError", "ValueError"}
          /\ chain' = chain
          /\ heap' = heap]_vars

\* the hash the block would have with nonce n satisfies the difficulty predicate
Solves(block, h, n) == LeadingZeros(generate_hash([block EXCEPT !.nonce = n], h))

\* final is entry after a search that returned: sealed, its hash the hash of
\* its fields, its nonce the least one from entry's nonce on that solves
SealedFrom(entry, final, h) ==
    /\ LeadingZeros(final.hash)
    /\ final.hash = generate_hash(final, h)
    /\ final = [entry EXCEPT !.nonce = final.nonce, !.hash = final.hash]
    /\ final.nonce >= entry.nonce
    /\ \A n \in entry.nonce..(final.nonce - 1) : ~Solves(entry, h, n)

\* C15: when proof_of_work returns, the block's stored hash satisfies the
\* difficulty predicate and is generate_hash of its fields, and its nonce is
\* the least one from the nonce at entry on whose hash satisfies the
\* predicate; when no nonce does, the search never returns and add_block
\* appends nothing.
C15_SearchResult ==
    [][/\ ret'.op = "add_block" =>
             \E now \in Times :
                 SealedFrom(Block(current_transactions, chain[Len(chain)].hash, now, heap),
                            chain'[Len(chain')], heap')
       /\ ret'.op = "proof_of_work" =>
             /\ SealedFrom(chain[ret'.arg], chain'[ret'.arg], heap')
             /\ ret'.val = chain'[ret'.arg].hash
       /\ ret'.op = "searching" =>
             /\ chain' = chain
             /\ \A n \in ret'.val.nonce..MaxNonce : ~Solves(ret'.val, heap, n)
       /\ pc = "searching" => chain' = chain]_vars

\* a block appended after a search that moved the nonce, and then a search
\* that found no nonce
C15_Witness ==
    /\ pc = "searching"
    /\ ret.op = "searching"
    /\ Len(chain) >= 2
    /\ chain[Len(chain)].nonce > 0
    /\ ret.val.transactions = current_transactions

\* C16: proof_of_work on a block whose stored hash already satisfies the
\* difficulty predicate leaves the block's nonce and hash as they are, the
\* nonce not going back to 0, and returns that hash.
C16_SealedStaysSealed ==
    [][\A k \in 1..Len(chain) :
           (ret'.op = "proof_of_work" /\ ret'.arg = k /\ LeadingZeros(chain[k].hash)) =>
               /\ chain'[k].nonce = chain[k].nonce
               /\ chain'[k].hash = chain[k].hash
               /\ ret'.val = chain[k].hash
               /\ chain' = chain]_vars

\* proof_of_work returned for a block that add_block had sealed at a nonce
\* above 0
C16_Witness ==
    /\ ret.op = "proof_of_work"
    /\ ret.arg >= 2
    /\ chain[ret.arg].nonce > 0
    /\ ret.val = chain[ret.arg].hash

\* C17: after any sequence of add_transaction, add_block, save_to_file and
\* load_from_file of a file save_to_file wrote, the chain holds at least one
\* block and its first block is a genesis block, with an empty transaction
\* list and previous_hash "0"; add_block therefore always finds a last block.
C17_GenesisFirst ==
    /\ Len(chain) >= 1
    /\ TxOf(chain[1]) = <<>>
    /\ chain[1].previous_hash = <<Ch("0")>>
    /\ chain[1].merkle_root = <<>>

\* a chain of two blocks or more just read back from the file, with a record
\* pending
C17_Witness ==
    /\ ret = Returned("load_from_file", "", None)
    /\ Len(chain) >= 2
    /\ Len(Pending) = 1
    /\ TxOf(chain[1]) = <<>>

HashInputs == {"transactions", "nonce", "timestamp", "merkle_root"}

\* C18: after the transaction list, the nonce, the timestamp or the stored
\* Merkle root of a block other than the genesis block is changed and its
\* stored hash left as it was, verify_chain returns False.
C18_InputChangeDetected ==
    (ret.op = "verify_chain" /\ tamper.field \in HashInputs /\ tamper.k >= 2)
        => ret.val = FALSE

\* verify_chain answered after the stored Merkle root of the last of three
\* blocks was changed
C18_Witness ==
    /\ ret.op = "verify_chain"
    /\ tamper.field = "merkle_root"
    /\ tamper.k = 3
    /\ Len(chain) = 3
    /\ chain[3].hash = generate_hash([chain[3] EXCEPT !.merkle_root = tamper.old], heap)
    /\ ret.val = FALSE

====
